---- MODULE Spec2Model ----
(***************************************************************************)
(* ldpsc: a list of C function prototypes is parsed (nom 4 combinators on  *)
(* a streaming byte slice) and one interceptor definition is generated per *)
(* prototype.  Text is modelled as TLA+ strings, one character per byte.   *)
(***************************************************************************)
EXTENDS Naturals, Sequences, FiniteSets, TLC

VARIABLES
    content,       \* transform_file: the input buffer
    debug_output,  \* Config.debug_output: "-" or a path
    input,         \* transform_file: the unparsed rest of the buffer
    functions,     \* transform_file: the Functions parsed so far
    output,        \* transform_file: the output String
    pc,            \* position in the operation under way
    idx,           \* transform_file: how many Functions the for loop has taken
    result,        \* what the operation returned: "none", "Ok", "Err"
    src,           \* scenario: what the buffer was written from
    arg,           \* the argument of a lexer / Type method call
    ret            \* the value a lexer / Type method call returned

vars == <<content, debug_output, input, functions, output, idx, pc, result, src, arg, ret>>

(***************************************************************************)
(* nom's IResult: Ok((rest, out)), Err(Error), Err(Incomplete).            *)
(***************************************************************************)
Ok(rest, out) == [kind |-> "Ok", rest |-> rest, out |-> out]
Error == [kind |-> "Error", rest |-> "", out |-> ""]
Incomplete == [kind |-> "Incomplete", rest |-> "", out |-> ""]

Drop(i, n) == SubSeq(i, n + 1, Len(i))
Take(i, n) == SubSeq(i, 1, n)

\* recognize!: the slice of i0 that a parser consumed to leave rest
Recognized(i0, rest) == Take(i0, Len(i0) - Len(rest))

NondigitChars ==
    {"_", "a", "b", "c", "d", "e", "f", "g", "h", "i", "j", "k", "l", "m",
     "n", "o", "p", "q", "r", "s", "t", "u", "v", "w", "x", "y", "z",
     "A", "B", "C", "D", "E", "F", "G", "H", "I", "J", "K", "L", "M",
     "N", "O", "P", "Q", "R", "S", "T", "U", "V", "W", "X", "Y", "Z"}
DigitChars == {"0", "1", "2", "3", "4", "5", "6", "7", "8", "9"}
HexChars == DigitChars \cup {"a", "b", "c", "d", "e", "f", "A", "B", "C", "D", "E", "F"}
SpaceChars == {" ", "\t", "\r", "\n"}

\* one_of!: no byte -> Incomplete, a byte outside the set -> Error
one_of(set, i) ==
    IF Len(i) = 0 THEN Incomplete
    ELSE IF Head(i) \in set THEN Ok(Tail(i), Head(i))
    ELSE Error

\* char!: the same with a single byte
char(c, i) == one_of({c}, i)

\* tag!: compare over the common length; a mismatch is an Error, a buffer
\* that ends inside the tag is Incomplete
tag(t, i) ==
    LET n == IF Len(i) < Len(t) THEN Len(i) ELSE Len(t)
    IN  IF Take(i, n) # Take(t, n) THEN Error
        ELSE IF Len(i) >= Len(t) THEN Ok(Drop(i, Len(t)), t)
        ELSE Incomplete

\* the index of the first byte of i that is no whitespace, 0 when none
RECURSIVE FirstNonSpace(_, _)
FirstNonSpace(i, k) ==
    IF k > Len(i) THEN 0
    ELSE IF SubSeq(i, k, k) \in SpaceChars THEN FirstNonSpace(i, k + 1)
    ELSE k

\* whitespace::sp (split_at_position): whitespace up to the buffer's end is
\* Incomplete
sp(i) ==
    LET k == FirstNonSpace(i, 1)
    IN  IF k = 0 THEN Incomplete ELSE Ok(Drop(i, k - 1), Take(i, k - 1))

\* nom::multispace (split_at_position1): one or more whitespace bytes
multispace(i) ==
    LET k == FirstNonSpace(i, 1)
    IN  IF k = 0 THEN Incomplete
        ELSE IF k = 1 THEN Error
        ELSE Ok(Drop(i, k - 1), Take(i, k - 1))

\* opt!: an Error becomes None and consumes nothing, Incomplete passes
opt(r, i) ==
    IF r.kind = "Ok" THEN r
    ELSE IF r.kind = "Error" THEN Ok(i, "")
    ELSE r

\* alt! of two: the second is tried only after an Error of the first
alt(r1, r2) == IF r1.kind = "Error" THEN r2 ELSE r1

\* a parser run on what r left; its outcome replaces r
then(r, P(_)) == IF r.kind = "Ok" THEN P(r.rest) ELSE r

\* tuple!/do_parse!: the outputs collected so far, and the next parser; its
\* output is appended (push) or dropped (keep)
begin(i) == Ok(i, <<>>)
push(acc, q) == IF q.kind = "Ok" THEN Ok(q.rest, Append(acc, q.out)) ELSE q
keep(acc, q) == IF q.kind = "Ok" THEN Ok(q.rest, acc) ELSE q
and(r, P(_)) == IF r.kind = "Ok" THEN push(r.out, P(r.rest)) ELSE r
skip(r, P(_)) == IF r.kind = "Ok" THEN keep(r.out, P(r.rest)) ELSE r

\* map!
map(r, F(_)) == IF r.kind = "Ok" THEN Ok(r.rest, F(r.out)) ELSE r

\* recognize!
recognize(i, r) == IF r.kind = "Ok" THEN Ok(r.rest, Recognized(i, r.rest)) ELSE r

\* many0!: P again and again; an Error ends the list where it stands,
\* Incomplete is passed on
RECURSIVE many0(_, _, _)
many0(P(_), i, acc) ==
    LET r == P(i)
    IN  IF r.kind = "Ok" THEN many0(P, r.rest, Append(acc, r.out))
        ELSE IF r.kind = "Error" THEN Ok(i, acc)
        ELSE r

(***************************************************************************)
(* c_parser/basic.rs                                                       *)
(***************************************************************************)
nondigit(i) == one_of(NondigitChars, i)

hexadecimal_digit(i) == one_of(HexChars, i)

digit(i) == one_of(DigitChars, i)

\* count_fixed!(hexadecimal_digit, 4)
hex_quad(i) ==
    recognize(i, then(then(then(hexadecimal_digit(i), hexadecimal_digit),
                           hexadecimal_digit), hexadecimal_digit))

\* count_fixed!(hex_quad, 2)
two_hex_quads(i) == then(hex_quad(i), hex_quad)

universal_character_name(i) ==
    alt(recognize(i, then(tag("\\u", i), hex_quad)),
        recognize(i, then(tag("\\U", i), two_hex_quads)))

identifier_nondigit(i) == alt(nondigit(i), universal_character_name(i))

\* a continuation that takes no digit
identifier_part_NoDigit(i) == identifier_nondigit(i)

\* alt!(identifier_nondigit | digit)
identifier_part(i) == alt(identifier_nondigit(i), digit(i))

\* many0!(alt!(identifier_nondigit | digit))
identifier_rest(i) == many0(identifier_part, i, <<>>)

identifier(i) == recognize(i, then(identifier_nondigit(i), identifier_rest))

(***************************************************************************)
(* c_parser/mod.rs: the parsers                                            *)
(***************************************************************************)
Type(qualifiers, specifier, pointer) ==
    [qualifiers |-> qualifiers, specifier |-> specifier, pointer |-> pointer]

Function(return_type, name, parameters) ==
    [return_type |-> return_type, name |-> name, parameters |-> parameters]

\* value!(TypeQualifier::..., tag!(...))
qualifier_value(r, q) == IF r.kind = "Ok" THEN Ok(r.rest, q) ELSE r

\* the alt! of the four qualifier tags
qualifier_alt(i) ==
    alt(qualifier_value(tag("const", i), "Const"),
        alt(qualifier_value(tag("restrict", i), "Restrict"),
            alt(qualifier_value(tag("volatile", i), "Volatile"),
                qualifier_value(tag("_Atomic", i), "Atomic"))))

\* terminated!(alt!(...), multispace)
qualifier(i) ==
    LET r == qualifier_alt(i) IN IF r.kind = "Ok" THEN keep(r.out, multispace(r.rest)) ELSE r

many0_qualifiers(i) == many0(qualifier, i, <<>>)

SpecifierTags ==
    <<"void", "char", "short", "int", "long", "float", "double", "signed",
      "unsigned", "_Bool", "_Complex", "size_t">>

\* one alternative of alt_sep!: whitespace, then the tag
sep_tag(t, i) == then(sp(i), LAMBDA z : tag(t, z))

\* alt_sep!: an alternative that fails in any way gives way to the next one,
\* and the list ends in Error
RECURSIVE specifier_alt(_, _)
specifier_alt(i, k) ==
    IF k > Len(SpecifierTags) THEN Error
    ELSE LET r == sep_tag(SpecifierTags[k], i)
         IN  IF r.kind = "Ok" THEN r ELSE specifier_alt(i, k + 1)

specifier_alt_all(i) == specifier_alt(i, 1)

\* ws!(alt!(...)): whitespace, one specifier tag, whitespace
ws_specifier(i) ==
    LET a == then(sp(i), specifier_alt_all)
    IN  IF a.kind = "Ok" THEN keep(a.out, sp(a.rest)) ELSE a

\* value!((), tag!("*"))
star(i) == tag("*", i)

\* many0!(value!((), tag!("*")))
many0_stars(i) == many0(star, i, <<>>)

\* the closure of map!: the three outputs of the tuple! become a Type
MakeType(o) == Type(o[1], o[2], Len(o[3]))

parse_type(i) ==
    map(and(and(and(begin(i), many0_qualifiers), ws_specifier), many0_stars), MakeType)

\* wrap_sep!: whitespace, then the parser
sep_parse_type(i) == then(sp(i), parse_type)
sep_identifier(i) == then(sp(i), identifier)

\* sep!(sp, pair!(parse_type, map!(identifier, ...))): one parameter, with
\* whitespace allowed in front of the type and in front of the name
parameter(i) == and(and(then(sp(i), begin), sep_parse_type), sep_identifier)

\* ws!(tag!(",")): whitespace, the comma, whitespace
ws_comma(i) ==
    LET c == sep_tag(",", i) IN IF c.kind = "Ok" THEN keep(c.out, sp(c.rest)) ELSE c

\* sep!(sp, ws!(tag!(","))): the separator of the parameter list
comma(i) == then(sp(i), ws_comma)

\* separated_list!: the separator, then the next element
comma_parameter(i) == then(comma(i), parameter)

\* separated_list!: after the first element, separator and element by turns;
\* an Error of either returns the list as it stands, with the input in front
\* of the separator
separated_list(i) ==
    LET e == parameter(i)
    IN  IF e.kind = "Ok" THEN many0(comma_parameter, e.rest, <<e.out>>)
        ELSE IF e.kind = "Error" THEN Ok(i, <<>>)
        ELSE e

\* ws!(separated_list!(...))
ws_separated_list(i) ==
    LET l == then(sp(i), separated_list)
    IN  IF l.kind = "Ok" THEN keep(l.out, sp(l.rest)) ELSE l

open_paren(i) == char("(", i)
close_paren(i) == char(")", i)
semicolon(i) == char(";", i)

\* delimited!(char!('('), ws!(separated_list!(...)), char!(')'))
parameter_list(i) == skip(then(open_paren(i), ws_separated_list), close_paren)

\* opt!(multispace)
opt_multispace(i) == opt(multispace(i), i)

\* the closing expression of do_parse!
MakeFunction(o) == Function(o[1], o[2], o[3])

\* named!(function ...): do_parse! of the type, the name, the parameter list
\* and the ';'
function(i) ==
    map(skip(skip(and(skip(and(skip(and(begin(i),
            parse_type),
            opt_multispace),
            identifier),
            opt_multispace),
            parameter_list),
            opt_multispace),
            semicolon),
        MakeFunction)

(***************************************************************************)
(* c_parser/mod.rs: the generator                                          *)
(***************************************************************************)
\* impl fmt::Display for TypeQualifier
TypeQualifierDisplay(q) ==
    CASE q = "Const" -> "const"
      [] q = "Restrict" -> "restrict"
      [] q = "Volatile" -> "volatile"
      [] q = "Atomic" -> "_Atomic"

RECURSIVE QualifiersDisplay(_, _)
QualifiersDisplay(qs, k) ==
    IF k > Len(qs) THEN ""
    ELSE TypeQualifierDisplay(qs[k]) \o " " \o QualifiersDisplay(qs, k + 1)

RECURSIVE Stars(_)
Stars(n) == IF n = 0 THEN "" ELSE "*" \o Stars(n - 1)

\* a Display that writes the qualifiers behind the specifier
TypeDisplay_QualifiersLast(t) ==
    LET RECURSIVE Q(_)
        Q(k) == IF k > Len(t.qualifiers) THEN ""
                ELSE " " \o TypeQualifierDisplay(t.qualifiers[k]) \o Q(k + 1)
    IN  t.specifier \o Q(1) \o (IF t.pointer > 0 THEN " " ELSE "") \o Stars(t.pointer)

\* impl fmt::Display for Type
TypeDisplay(t) ==
    QualifiersDisplay(t.qualifiers, 1) \o t.specifier
        \o (IF t.pointer > 0 THEN " " ELSE "") \o Stars(t.pointer)

\* a get_format_specifier that takes every qualified type for a pointer
get_format_specifier_QualifiedAsPointer(t) ==
    IF t.qualifiers # <<>> THEN "%p"
    ELSE IF t.specifier = "char" /\ t.pointer = 1 THEN "\\\"%s\\\""
    ELSE IF t.specifier = "int" /\ t.pointer = 0 THEN "%d"
    ELSE IF t.specifier = "size_t" /\ t.pointer = 0 THEN "%zd"
    ELSE IF t.pointer = 0 THEN "{Unknown Type: %d}" ELSE "%p"

\* Type::get_format_specifier
get_format_specifier(t) ==
    CASE t.specifier = "char" /\ t.pointer = 1 -> "\\\"%s\\\""
      [] t.specifier = "int" /\ t.pointer = 0 -> "%d"
      [] t.specifier = "size_t" /\ t.pointer = 0 -> "%zd"
      [] OTHER -> IF t.pointer = 0 THEN "{Unknown Type: %d}" ELSE "%p"

\* an is_void that looks at the specifier alone
is_void_AnyPointer(t) == t.specifier = "void"

\* Type::is_void
is_void(t) == t.specifier = "void" /\ t.pointer = 0

\* the parameter loop of get_signature: type, a space unless it is a pointer,
\* name, and ", " unless it is the last one
RECURSIVE SignatureParameters(_, _)
SignatureParameters(ps, k) ==
    IF k > Len(ps) THEN ""
    ELSE TypeDisplay(ps[k][1]) \o (IF ps[k][1].pointer = 0 THEN " " ELSE "")
             \o ps[k][2] \o (IF k # Len(ps) THEN ", " ELSE "")
             \o SignatureParameters(ps, k + 1)

\* Function::get_signature
get_signature(f, as_pointer) ==
    TypeDisplay(f.return_type) \o (IF f.return_type.pointer > 0 THEN "" ELSE " ")
        \o (IF as_pointer THEN "(*original_" \o f.name \o ")(" ELSE f.name \o "(")
        \o SignatureParameters(f.parameters, 1) \o ")"

\* get_definition: the declaration of the log stream
StreamStatement(out) ==
    IF out = "-" THEN "    FILE *output = stderr;\n"
    ELSE "    FILE *output = fopen(\"" \o out \o "\", \"a\");\n"

\* get_definition: the trampoline and its lookup
LookupStatement(f) ==
    "    " \o get_signature(f, TRUE) \o " = dlsym(RTLD_NEXT, \"" \o f.name \o "\");\n"

\* a loop that writes the names of the forwarding call last parameter first
RECURSIVE CallArguments_Reversed(_, _)
CallArguments_Reversed(ps, k) ==
    IF k > Len(ps) THEN ""
    ELSE CallArguments_Reversed(ps, k + 1) \o (IF k # Len(ps) THEN ", " ELSE "") \o ps[k][2]

\* the loop that writes the parameter names of the forwarding call
RECURSIVE CallArguments(_, _)
CallArguments(ps, k) ==
    IF k > Len(ps) THEN ""
    ELSE ps[k][2] \o (IF k # Len(ps) THEN ", " ELSE "") \o CallArguments(ps, k + 1)

\* get_definition: the forwarding call, with the result variable if kept
CallStatement(f) ==
    "    "
        \o (IF ~is_void(f.return_type)
            THEN TypeDisplay(f.return_type)
                     \o (IF f.return_type.pointer > 0 THEN "result = " ELSE " result = ")
            ELSE "")
        \o "original_" \o f.name \o "(" \o CallArguments(f.parameters, 1) \o ");\n"

\* the loop that writes the parameters' format specifiers
RECURSIVE FormatParameters(_, _)
FormatParameters(ps, k) ==
    IF k > Len(ps) THEN ""
    ELSE get_format_specifier(ps[k][1]) \o (IF k # Len(ps) THEN ", " ELSE "")
             \o FormatParameters(ps, k + 1)

\* a loop that writes the fprintf arguments last parameter first
RECURSIVE LogArguments_Reversed(_, _)
LogArguments_Reversed(ps, k) ==
    IF k > Len(ps) THEN ""
    ELSE LogArguments_Reversed(ps, k + 1) \o ", " \o ps[k][2]

\* the loop that writes the parameter names as fprintf arguments
RECURSIVE LogArguments(_, _)
LogArguments(ps, k) ==
    IF k > Len(ps) THEN "" ELSE ", " \o ps[k][2] \o LogArguments(ps, k + 1)

\* get_definition: the fprintf statement
LogStatement(f) ==
    "    fprintf(output, \""
        \o (IF ~is_void(f.return_type)
            THEN get_format_specifier(f.return_type) \o " = " ELSE "")
        \o f.name \o "(" \o FormatParameters(f.parameters, 1) \o ")\\n\""
        \o (IF ~is_void(f.return_type) THEN ", result" ELSE "")
        \o LogArguments(f.parameters, 1) \o ");\n"

\* a generator that closes the stream whatever the destination
CloseStatement_Always(out) == "    fclose(output);\n"

\* get_definition: the fclose statement
CloseStatement(out) == IF out # "-" THEN "    fclose(output);\n" ELSE ""

\* get_definition: the return statement
ReturnStatement(f) == IF ~is_void(f.return_type) THEN "    return result;\n" ELSE ""

\* Function::get_definition
get_definition(f, out) ==
    get_signature(f, FALSE) \o " {\n"
        \o StreamStatement(out)
        \o LookupStatement(f)
        \o CallStatement(f)
        \o LogStatement(f)
        \o CloseStatement(out)
        \o ReturnStatement(f)
        \o "}\n"

(***************************************************************************)
(* The buffers the operations are run on.  A buffer is written from a list *)
(* of declarations in one of two layouts, then left whole, cut short,      *)
(* followed by text that is no declaration, or written with the return     *)
(* type's keyword glued to the name.                                       *)
(***************************************************************************)
MaxPointer == 2
MaxParams == 2
MaxDecls == 2
MaxCut == 3

QualifierChoices ==
    << <<>>, <<"Const">>, <<"Volatile", "Const">>, <<"Restrict", "Atomic">> >>
Pointers == 0..MaxPointer
AllTypes ==
    {Type(QualifierChoices[q], SpecifierTags[k], p) :
        q \in 1..Len(QualifierChoices), k \in 1..Len(SpecifierTags), p \in Pointers}

\* the n-th type of the buffers: every specifier at every pointer depth, the
\* qualifiers varying along
NTypes == Len(SpecifierTags) * (MaxPointer + 1)
TypeOf(n) ==
    Type(QualifierChoices[((n \div 7) % Len(QualifierChoices)) + 1],
         SpecifierTags[(n % Len(SpecifierTags)) + 1],
         (n \div Len(SpecifierTags)) % (MaxPointer + 1))

FunctionNames == <<"read", "noop", "f_1", "caf\\u00e9">>
ParameterNames == <<"fd", "buf", "count", "x4", "_5", "n6">>
NDecls == NTypes * (MaxParams + 1)
DeclOf(n) ==
    Function(TypeOf(n),
             FunctionNames[(n % Len(FunctionNames)) + 1],
             [j \in 1..((n \div NTypes) % (MaxParams + 1)) |->
                 <<TypeOf(n * 5 + j * 7 + 1), ParameterNames[j]>>])
DeclsOf(n, k) == [j \in 1..k |-> DeclOf((n + (j - 1) * 37) % NDecls)]

\* a layout: w where whitespace is needed, o where it is optional, c the comma
Plain == [w |-> " ", o |-> "", c |-> ", "]
Loose == [w |-> "\t ", o |-> " ", c |-> " ,\n"]

WriteType(t, st) ==
    LET RECURSIVE Quals(_)
        Quals(k) == IF k > Len(t.qualifiers) THEN ""
                    ELSE TypeQualifierDisplay(t.qualifiers[k]) \o st.w \o Quals(k + 1)
    IN  Quals(1) \o t.specifier \o (IF t.pointer > 0 THEN st.o ELSE "") \o Stars(t.pointer)

WriteParameters(ps, st) ==
    LET RECURSIVE Params(_)
        Params(k) ==
            IF k > Len(ps) THEN ""
            ELSE WriteType(ps[k][1], st) \o (IF ps[k][1].pointer = 0 THEN st.w ELSE "")
                     \o ps[k][2] \o (IF k < Len(ps) THEN st.c ELSE "") \o Params(k + 1)
    IN  Params(1)

\* gap: what stands between the return type and the name
WriteDecl(d, st, gap) ==
    WriteType(d.return_type, st) \o gap \o d.name \o st.o \o "(" \o st.o
        \o WriteParameters(d.parameters, st) \o st.o \o ")" \o st.o \o ";"

GapOf(d, st) == IF d.return_type.pointer = 0 THEN st.w ELSE st.o

WriteDecls(ds, st, sep) ==
    LET RECURSIVE W(_)
        W(k) == IF k > Len(ds) THEN ""
                ELSE WriteDecl(ds[k], st, GapOf(ds[k], st))
                         \o (IF k < Len(ds) THEN sep ELSE "") \o W(k + 1)
    IN  W(1)

\* how a buffer is written and where its log goes: the layout, what stands
\* between two declarations, what stands behind the last one, the destination
Formats ==
    {[st |-> Plain, sep |-> "", t |-> "", out |-> "-"],
     [st |-> Plain, sep |-> "\n", t |-> " \n", out |-> "/tmp/ldpsc.log"],
     [st |-> Loose, sep |-> "", t |-> " \n", out |-> "/tmp/ldpsc.log"],
     [st |-> Loose, sep |-> "\n", t |-> "", out |-> "-"]}
\* text that is no declaration: a multi-word specifier, a name that is no
\* identifier, a missing ')', a function body, an unknown specifier, '['
HardTails ==
    {"unsigned long f();", "int 5();", "int f(int a;", "int f() {}",
     "foo f();", "int f[int a];"}

Scenario(decls, shape) == [decls |-> decls, shape |-> shape]

Start(text, out, scenario) ==
    /\ content = text
    /\ debug_output = out
    /\ input = text
    /\ functions = <<>>
    /\ output = ""
    /\ idx = 0
    /\ pc = "loop"
    /\ result = "none"
    /\ src = scenario
    /\ arg = ""
    /\ ret = ""

InitWhole ==
    \E k \in 0..MaxDecls, n \in 0..(NDecls - 1), f \in Formats :
        /\ k = 0 => n = 0
        /\ Start(WriteDecls(DeclsOf(n, k), f.st, f.sep) \o f.t, f.out,
                 Scenario(DeclsOf(n, k), "whole"))

\* a buffer that ends inside its last declaration, behind at most one
\* complete declaration
InitCut ==
    \E k \in {1, 2}, n \in 0..(NDecls - 1), c \in 1..MaxCut :
        LET text == WriteDecls(DeclsOf(n, k), Plain, "")
        IN  Start(Take(text, Len(text) - c), "/tmp/ldpsc.log",
                  Scenario(DeclsOf(n, k), "cut"))

\* text that is no declaration, behind at most one declaration without
\* parameters
InitTail ==
    \E k \in {0, 1}, n \in 0..(NTypes - 1), t \in HardTails :
        /\ k = 0 => n = 0
        /\ Start(WriteDecls(DeclsOf(n, k), Plain, "") \o t, "-",
                 Scenario(DeclsOf(n, k), "tail"))

InitGlued ==
    \E n \in 0..(NDecls - 1) :
        /\ DeclOf(n).return_type.qualifiers = <<>>
        /\ DeclOf(n).return_type.pointer = 0
        /\ Start(WriteDecl(DeclOf(n), Plain, ""), "-",
                 Scenario(<<DeclOf(n)>>, "glued"))

Init == InitWhole \/ InitCut \/ InitTail \/ InitGlued

(***************************************************************************)
(* transform_file                                                          *)
(***************************************************************************)
\* a loop that takes every failure of the parser for the end of the input
LoopOutcome_BreakOnError(kind) == IF kind = "Ok" THEN "push" ELSE "break"

\* the match on function(&input): what the loop does with each outcome
LoopOutcome(kind) ==
    CASE kind = "Ok" -> "push"
      [] kind = "Incomplete" -> "break"
      [] OTHER -> "fail"

\* a loop that pushes the Function and keeps the input it had
ParsePush_KeepInput ==
    /\ pc = "loop"
    /\ LoopOutcome(function(input).kind) = "push"
    /\ functions' = Append(functions, function(input).out)
    /\ UNCHANGED <<content, debug_output, input, output, idx, pc, result, src, arg, ret>>

\* Ok((new_input, result)): the Function is pushed and the loop goes on
ParsePush ==
    /\ pc = "loop"
    /\ LET parsed == function(input)
       IN  /\ LoopOutcome(parsed.kind) = "push"
           /\ input' = parsed.rest
           /\ functions' = Append(functions, parsed.out)
    /\ UNCHANGED <<content, debug_output, output, idx, pc, result, src, arg, ret>>

\* Err(Incomplete): break
ParseBreak ==
    /\ pc = "loop"
    /\ LoopOutcome(function(input).kind) = "break"
    /\ pc' = "header"
    /\ UNCHANGED <<content, debug_output, input, functions, output, idx, result, src, arg, ret>>

\* Err(e): transform_file returns Err("Parser error: ...")
ParseFail ==
    /\ pc = "loop"
    /\ LoopOutcome(function(input).kind) = "fail"
    /\ pc' = "done"
    /\ result' = "Err"
    /\ UNCHANGED <<content, debug_output, input, functions, output, idx, src, arg, ret>>

HeaderText == "#define _GNU_SOURCE\n" \o "#include<dlfcn.h>\n" \o "#include<stdio.h>\n"

\* the three push_str of the fixed lines
PushHeader ==
    /\ pc = "header"
    /\ output' = output \o HeaderText
    /\ pc' = "emit"
    /\ UNCHANGED <<content, debug_output, input, functions, idx, result, src, arg, ret>>

\* a for loop that leaves the push_str("\n") out
Emitted_NoBlankLine(f, out) == get_definition(f, out)

\* what one turn of the for loop appends for Function f
Emitted(f, out) == "\n" \o get_definition(f, out)

\* one turn of the for loop over functions
EmitDefinition ==
    /\ pc = "emit"
    /\ idx < Len(functions)
    /\ output' = output \o Emitted(functions[idx + 1], debug_output)
    /\ idx' = idx + 1
    /\ UNCHANGED <<content, debug_output, input, functions, pc, result, src, arg, ret>>

\* Ok(output)
ReturnOk ==
    /\ pc = "emit"
    /\ idx = Len(functions)
    /\ pc' = "done"
    /\ result' = "Ok"
    /\ UNCHANGED <<content, debug_output, input, functions, output, idx, src, arg, ret>>

Next == ParsePush \/ ParseBreak \/ ParseFail \/ PushHeader \/ EmitDefinition \/ ReturnOk

Spec == Init /\ [][Next]_vars

(***************************************************************************)
(* get_format_specifier on its own: two types of one specifier and one     *)
(* pointer depth, each with its qualifiers, and the token of each.         *)
(***************************************************************************)
Idle(position) ==
    /\ content = "" /\ debug_output = "-" /\ input = "" /\ functions = <<>>
    /\ output = "" /\ idx = 0 /\ result = "none"
    /\ src = Scenario(<<>>, "unit") /\ pc = position

InitFormat ==
    \E a \in AllTypes, b \in AllTypes :
        /\ a.specifier = b.specifier
        /\ a.pointer = b.pointer
        /\ Idle("format")
        /\ arg = <<a, b>>
        /\ ret = <<>>

Format ==
    /\ pc = "format"
    /\ ret' = <<get_format_specifier(arg[1]), get_format_specifier(arg[2])>>
    /\ pc' = "formatted"
    /\ UNCHANGED <<content, debug_output, input, functions, output, idx, result, src, arg>>

NextFormat == Format

SpecFormat == InitFormat /\ [][NextFormat]_vars

(***************************************************************************)
(* identifier on its own: a buffer of up to MaxLexLen pieces.              *)
(***************************************************************************)
MaxLexLen == 3
LexPieces ==
    {"a", "Z", "_", "7", "+", " ", "\\", "\\u12ab", "\\UffAC1234", "\\u12", "\\x"}

RECURSIVE LexBuffers(_)
LexBuffers(n) ==
    IF n = 0 THEN {""}
    ELSE LET S == LexBuffers(n - 1) IN S \cup {p \o t : p \in LexPieces, t \in S}

InitIdentifier ==
    \E t \in LexBuffers(MaxLexLen) :
        /\ Idle("lex")
        /\ arg = t
        /\ ret = <<>>

Lex ==
    /\ pc = "lex"
    /\ ret' = identifier(arg)
    /\ pc' = "lexed"
    /\ UNCHANGED <<content, debug_output, input, functions, output, idx, result, src, arg>>

NextIdentifier == Lex

SpecIdentifier == InitIdentifier /\ [][NextIdentifier]_vars

(***************************************************************************)
(* Reading a text: its lines, the blocks of lines between blank lines.     *)
(***************************************************************************)
IsBlank(t) == FirstNonSpace(t, 1) = 0

\* the indices of the newlines of t
NewlinesOf(t) == {k \in 1..Len(t) : SubSeq(t, k, k) = "\n"}

\* the least index of a set of indices, 0 when there is none
First(S) == IF S = {} THEN 0 ELSE CHOOSE k \in S : \A j \in S : k <= j

RECURSIVE LinesFrom(_, _, _)
\* the line from start to the newline at nl, and the lines behind it
LineTo(t, start, nl, NL) ==
    IF nl = 0 THEN <<SubSeq(t, start, Len(t))>>
    ELSE <<SubSeq(t, start, nl - 1)>> \o LinesFrom(t, nl + 1, NL)

LinesFrom(t, start, NL) ==
    IF start > Len(t) THEN <<>>
    ELSE LineTo(t, start, First({k \in NL : k >= start}), NL)

Lines(t) == LinesFrom(t, 1, NewlinesOf(t))

\* every blank line opens a block; lines in front of the first one form one too
RECURSIVE BlocksFrom(_, _, _)
BlocksFrom(L, k, acc) ==
    IF k > Len(L) THEN acc
    ELSE IF L[k] = "" THEN BlocksFrom(L, k + 1, Append(acc, <<>>))
    ELSE IF acc = <<>> THEN BlocksFrom(L, k + 1, <<<<L[k]>>>>)
    ELSE BlocksFrom(L, k + 1,
                    [acc EXCEPT ![Len(acc)] = Append(acc[Len(acc)], L[k])])

\* the blocks of the output behind its three first lines
DefinitionBlocks == BlocksFrom(Lines(output), 4, <<>>)

StartsWith(t, pre) == Len(t) >= Len(pre) /\ Take(t, Len(pre)) = pre
Contains(t, sub) ==
    \E k \in 1..(Len(t) + 1) :
        k + Len(sub) - 1 <= Len(t) /\ SubSeq(t, k, k + Len(sub) - 1) = sub

ReturnedOk == pc = "done" /\ result = "Ok"

(***************************************************************************)
(* C1: transform_file returns Ok only when everything in front of the      *)
(* unparsed rest was complete declarations and that rest is empty or       *)
(* whitespace; a buffer that ends inside a declaration gives Err.          *)
(***************************************************************************)
C1_OkOnlyAtCleanEnd ==
    ReturnedOk => (IsBlank(input) /\ src.shape # "cut")

(***************************************************************************)
(* C2: when the declaration parser fails with an Error, transform_file     *)
(* returns Err and no output text has been produced, however many          *)
(* declarations were parsed before.                                        *)
(***************************************************************************)
C2_HardErrorIsAtomic ==
    function(input).kind = "Error" =>
        /\ output = ""
        /\ pc \in {"loop", "done"}
        /\ pc = "done" => result = "Err"

C2_ErrAfterParsedDeclarations ==
    pc = "done" /\ result = "Err" /\ Len(functions) >= 1 /\ output = ""
        /\ function(input).kind = "Error"

(***************************************************************************)
(* C3: for a buffer of k valid declarations, the Ok output is the three    *)
(* fixed lines, then k definitions, the i-th made from the i-th            *)
(* declaration, each with exactly one blank line in front of it.           *)
(***************************************************************************)
RECURSIVE ExpectedDefinitions(_, _, _)
ExpectedDefinitions(ds, out, k) ==
    IF k > Len(ds) THEN ""
    ELSE "\n" \o get_definition(ds[k], out) \o ExpectedDefinitions(ds, out, k + 1)

C3_OutputLayout ==
    (ReturnedOk /\ src.shape = "whole") =>
        LET L == Lines(output)
            B == DefinitionBlocks
        IN  /\ functions = src.decls
            /\ Len(L) >= 3
            /\ L[1] = "#define _GNU_SOURCE"
            /\ L[2] = "#include<dlfcn.h>"
            /\ L[3] = "#include<stdio.h>"
            /\ Len(src.decls) > 0 => L[4] = ""
            /\ Len(B) = Len(src.decls)
            /\ \A i \in 1..Len(B) :
                   /\ B[i] # <<>>
                   /\ B[i][1] = get_signature(src.decls[i], FALSE) \o " {"
                   /\ B[i][Len(B[i])] = "}"
            /\ output = "#define _GNU_SOURCE\n#include<dlfcn.h>\n#include<stdio.h>\n"
                            \o ExpectedDefinitions(src.decls, debug_output, 1)

C3_TwoDefinitionsEmitted ==
    ReturnedOk /\ src.shape = "whole" /\ Len(src.decls) = 2 /\ Len(DefinitionBlocks) = 2
        /\ src.decls[1].parameters # src.decls[2].parameters
(***************************************************************************)
(* The format token the specification's table gives a type.                *)
(***************************************************************************)
FormatTable(specifier, pointer) ==
    IF pointer = 0
    THEN (IF specifier = "int" THEN "%d"
          ELSE IF specifier = "size_t" THEN "%zd"
          ELSE "{Unknown Type: %d}")
    ELSE (IF specifier = "char" /\ pointer = 1 THEN "\\\"%s\\\"" ELSE "%p")

RECURSIVE Join(_, _)
Join(ts, sep) ==
    IF ts = <<>> THEN ""
    ELSE IF Len(ts) = 1 THEN ts[1]
    ELSE ts[1] \o sep \o Join(Tail(ts), sep)

ParameterTokens(f) ==
    [j \in 1..Len(f.parameters) |->
        FormatTable(f.parameters[j][1].specifier, f.parameters[j][1].pointer)]
ParameterNamesOf(f) == [j \in 1..Len(f.parameters) |-> f.parameters[j][2]]
ReturnToken(f) == FormatTable(f.return_type.specifier, f.return_type.pointer)
PlainVoid(f) == f.return_type.specifier = "void" /\ f.return_type.pointer = 0

\* the lines of a block that hold a given text
LinesWith(block, sub) == SelectSeq(block, LAMBDA l : Contains(l, sub))
LogLines(block) == LinesWith(block, "fprintf(")

(***************************************************************************)
(* C4 as claimed: for a non-void return type the log line is the name,     *)
(* the parameters' tokens in parentheses, " = " and the return value's     *)
(* token, and the arguments are the parameter names followed by result.    *)
(***************************************************************************)
C4_LogLineResultLast ==
    ReturnedOk =>
        LET Blocks == DefinitionBlocks IN
        \A i \in 1..Len(functions) :
            ~PlainVoid(functions[i]) =>
                LogLines(Blocks[i]) =
                    << "    fprintf(output, \"" \o functions[i].name \o "("
                           \o Join(ParameterTokens(functions[i]), ", ") \o ") = "
                           \o ReturnToken(functions[i]) \o "\\n\", "
                           \o Join(ParameterNamesOf(functions[i]) \o <<"result">>, ", ")
                           \o ");" >>

(***************************************************************************)
(* C4 as amended: for a non-void return type the log line is the return    *)
(* value's token, " = ", the name and the parameters' tokens in            *)
(* parentheses, and the arguments are result followed by the parameter     *)
(* names in declaration order.                                             *)
(***************************************************************************)
C4_LogLineResultFirst ==
    ReturnedOk =>
        LET Blocks == DefinitionBlocks IN
        \A i \in 1..Len(functions) :
            ~PlainVoid(functions[i]) =>
                LogLines(Blocks[i]) =
                    << "    fprintf(output, \"" \o ReturnToken(functions[i]) \o " = "
                           \o functions[i].name \o "("
                           \o Join(ParameterTokens(functions[i]), ", ") \o ")\\n\", "
                           \o Join(<<"result">> \o ParameterNamesOf(functions[i]), ", ")
                           \o ");" >>

C4_NonVoidWithParametersLogged ==
    ReturnedOk /\ \E i \in 1..Len(functions) :
        /\ ~PlainVoid(functions[i])
        /\ Len(functions[i].parameters) >= 2
        /\ Len(LogLines(DefinitionBlocks[i])) = 1

(***************************************************************************)
(* C5: the result variable, the return value's clause of the log line      *)
(* (with result among the arguments) and the return statement are present  *)
(* together exactly when the return type is not plain void; a plain void   *)
(* function without parameters logs its name and "()" alone.               *)
(***************************************************************************)
C5_ResultKeptUnlessPlainVoid ==
    ReturnedOk =>
        LET Blocks == DefinitionBlocks IN
        \A i \in 1..Len(functions) :
            LET B == Blocks[i]
                f == functions[i]
                kept == ~PlainVoid(f)
            IN  /\ (LinesWith(B, "result = original_") # <<>>) <=> kept
                /\ Len(LogLines(B)) = 1
                /\ Contains(LogLines(B)[1], " = ") <=> kept
                /\ Contains(LogLines(B)[1], ", result") <=> kept
                /\ (LinesWith(B, "return") # <<>>) <=> kept
                /\ kept => LinesWith(B, "return") = <<"    return result;">>
                /\ (~kept /\ f.parameters = <<>>) =>
                       LogLines(B)[1] = "    fprintf(output, \"" \o f.name \o "()\\n\");"

C5_PlainVoidWithoutParametersEmitted ==
    ReturnedOk /\ \E i \in 1..Len(functions) :
        /\ PlainVoid(functions[i])
        /\ functions[i].parameters = <<>>
        /\ LinesWith(DefinitionBlocks[i], "return") = <<>>
        /\ Len(DefinitionBlocks[i]) >= 6

(***************************************************************************)
(* C7 as claimed: with a path as destination the definition opens it in    *)
(* append mode in the statement right before the log statement and closes  *)
(* it in the statement right after; with "-" it uses stderr and neither    *)
(* opens nor closes.                                                       *)
(***************************************************************************)
OpenLine == "    FILE *output = fopen(\"" \o debug_output \o "\", \"a\");"
CloseLine == "    fclose(output);"

C7_OpenRightBeforeLog ==
    ReturnedOk =>
        LET Blocks == DefinitionBlocks IN
        \A i \in 1..Len(functions) :
            LET B == Blocks[i]
            IN  IF debug_output # "-"
                THEN \E k \in 1..Len(B) :
                        /\ k + 2 <= Len(B)
                        /\ B[k] = OpenLine
                        /\ Contains(B[k + 1], "fprintf(")
                        /\ B[k + 2] = CloseLine
                ELSE /\ B[2] = "    FILE *output = stderr;"
                     /\ LinesWith(B, "fopen(") = <<>>
                     /\ LinesWith(B, "fclose(") = <<>>

(***************************************************************************)
(* C7 as amended: with a path as destination the definition opens it in    *)
(* append mode in its first statement, in front of the symbol lookup and   *)
(* the forwarding call; the log statement follows the forwarding call and  *)
(* the close is the statement right after the log statement, each once.    *)
(* With "-" it uses stderr and neither opens nor closes.                   *)
(***************************************************************************)
C7_OpenFirstCloseRightAfterLog ==
    ReturnedOk =>
        LET Blocks == DefinitionBlocks IN
        \A i \in 1..Len(functions) :
            LET B == Blocks[i]
            IN  /\ Len(B) >= 6
                /\ Contains(B[3], "dlsym(RTLD_NEXT, \"" \o functions[i].name \o "\")")
                /\ Contains(B[4], "original_" \o functions[i].name \o "(")
                /\ LogLines(B) = <<B[5]>>
                /\ IF debug_output # "-"
                   THEN /\ B[2] = OpenLine
                        /\ B[6] = CloseLine
                        /\ Len(LinesWith(B, "fopen(")) = 1
                        /\ Len(LinesWith(B, "fclose(")) = 1
                   ELSE /\ B[2] = "    FILE *output = stderr;"
                        /\ LinesWith(B, "fopen(") = <<>>
                        /\ LinesWith(B, "fclose(") = <<>>

C7_PathDestinationEmitted ==
    ReturnedOk /\ debug_output # "-" /\ Len(functions) = 2
        /\ DefinitionBlocks[2][2] = OpenLine
        /\ DefinitionBlocks[2][6] = CloseLine
        /\ ~PlainVoid(functions[2])

(***************************************************************************)
(* C8: the signature of a parsed declaration, rendered and followed by     *)
(* ';', parses again to the same return type, name and parameters.         *)
(***************************************************************************)
C8_SignatureRoundTrip ==
    pc \in {"header", "done"} =>
        \A i \in 1..Len(functions) :
            LET r == function(get_signature(functions[i], FALSE) \o ";")
            IN  /\ r.kind = "Ok"
                /\ r.rest = ""
                /\ r.out.return_type = functions[i].return_type
                /\ r.out.name = functions[i].name
                /\ r.out.parameters = functions[i].parameters

C8_QualifiedPointerParsed ==
    pc = "header" /\ \E i \in 1..Len(functions) :
        /\ Len(functions[i].return_type.qualifiers) = 2
        /\ functions[i].return_type.pointer = 2
        /\ Len(functions[i].parameters) = 2
        /\ functions[i].parameters[1][1].qualifiers # <<>>

(***************************************************************************)
(* C9: a buffer in which the return type's keyword runs straight into the  *)
(* name ("intread();") is rejected, never parsed as the specifier and a    *)
(* name made of the rest of the word.                                      *)
(***************************************************************************)
C9_KeywordIsWholeToken ==
    (pc = "done" /\ src.shape = "glued") => (result = "Err" /\ functions = <<>>)
(***************************************************************************)
(* C6: the token of a type is the table's entry for its specifier and its  *)
(* pointer depth, so two types that differ in their qualifiers alone get   *)
(* the same token.                                                         *)
(***************************************************************************)
C6_FormatBySpecifierAndPointer ==
    pc = "formatted" =>
        /\ ret[1] = FormatTable(arg[1].specifier, arg[1].pointer)
        /\ ret[2] = FormatTable(arg[2].specifier, arg[2].pointer)
        /\ ret[1] = ret[2]

C6_QualifiedStringFormatted ==
    /\ pc = "formatted"
    /\ arg[1].specifier = "char" /\ arg[1].pointer = 1
    /\ arg[1].qualifiers = <<>> /\ arg[2].qualifiers = <<"Volatile", "Const">>
    /\ ret = <<"\\\"%s\\\"", "\\\"%s\\\"">>

(***************************************************************************)
(* What the buffer holds at a position: the length of the identifier       *)
(* character there (a letter, an underscore, a digit, or a whole \uXXXX    *)
(* or \UXXXXXXXX escape), 0 when there is none.                            *)
(***************************************************************************)
At(t, k) == IF k <= Len(t) THEN SubSeq(t, k, k) ELSE ""
AllHex(t, from, to) == to <= Len(t) /\ \A j \in from..to : At(t, j) \in HexChars
EscapeAt(t, k) ==
    IF At(t, k) = "\\" /\ At(t, k + 1) = "u" /\ AllHex(t, k + 2, k + 5) THEN 6
    ELSE IF At(t, k) = "\\" /\ At(t, k + 1) = "U" /\ AllHex(t, k + 2, k + 9) THEN 10
    ELSE 0
NondigitAt(t, k) == IF At(t, k) \in NondigitChars THEN 1 ELSE EscapeAt(t, k)
CharacterAt(t, k) == IF At(t, k) \in DigitChars THEN 1 ELSE NondigitAt(t, k)

\* the buffer ends at k while what it holds from k on can still become an
\* identifier character: nothing, or the beginning of an escape
OpenEscapeAt(t, k, letter, digits) ==
    /\ At(t, k) = "\\"
    /\ At(t, k + 1) = letter
    /\ Len(t) < k + 1 + digits
    /\ \A j \in (k + 2)..Len(t) : At(t, j) \in HexChars

OpenAt(t, k) ==
    \/ k > Len(t)
    \/ k = Len(t) /\ At(t, k) = "\\"
    \/ OpenEscapeAt(t, k, "u", 4)
    \/ OpenEscapeAt(t, k, "U", 8)

\* the position behind the maximal run of identifier characters from k on
RECURSIVE RunEnd(_, _)
RunEnd(t, k) == IF CharacterAt(t, k) = 0 THEN k ELSE RunEnd(t, k + CharacterAt(t, k))

PrefixEnd(t) == IF NondigitAt(t, 1) = 0 THEN 1 ELSE RunEnd(t, 1 + NondigitAt(t, 1))

(***************************************************************************)
(* C10 as claimed: a buffer that begins with an identifier-nondigit gives  *)
(* success with the maximal prefix of identifier characters and the rest   *)
(* from the first other character on; a buffer that begins with a digit    *)
(* gives an error.                                                         *)
(***************************************************************************)
C10_MaximalPrefixAlways ==
    pc = "lexed" =>
        /\ At(arg, 1) \in DigitChars => ret = Error
        /\ NondigitAt(arg, 1) > 0 =>
               ret = Ok(Drop(arg, PrefixEnd(arg) - 1), Take(arg, PrefixEnd(arg) - 1))

(***************************************************************************)
(* C10 as amended: a buffer that begins with an identifier-nondigit and    *)
(* goes on behind the maximal prefix of identifier characters with         *)
(* something that cannot become one gives success with that prefix and the *)
(* rest from there on; when the buffer ends behind the prefix, or in an    *)
(* escape that is still open, the lexer gives Incomplete; a buffer that    *)
(* begins with a digit gives an error.                                     *)
(***************************************************************************)
C10_MaximalPrefixWhenDelimited ==
    pc = "lexed" =>
        /\ At(arg, 1) \in DigitChars => ret = Error
        /\ (NondigitAt(arg, 1) > 0 /\ ~OpenAt(arg, PrefixEnd(arg))) =>
               ret = Ok(Drop(arg, PrefixEnd(arg) - 1), Take(arg, PrefixEnd(arg) - 1))
        /\ (NondigitAt(arg, 1) > 0 /\ OpenAt(arg, PrefixEnd(arg))) => ret = Incomplete

C10_EscapeAndDigitConsumed ==
    /\ pc = "lexed"
    /\ arg = "\\u12ab7+"
    /\ ret = Ok("+", "\\u12ab7")
(***************************************************************************)
(* C11: whitespace in front of a declaration is insignificant, also when   *)
(* the return type begins with a qualifier: a buffer of valid declarations *)
(* with whitespace between them and behind them gives every declaration,   *)
(* in order.                                                               *)
(***************************************************************************)
C11_LeadingWhitespaceInsignificant ==
    (pc = "done" /\ src.shape = "whole") => (result = "Ok" /\ functions = src.decls)
(***************************************************************************)
(* A type and a parameter list as C text, from the words of the type.      *)
(***************************************************************************)
QualifierWord(q) ==
    CASE q = "Const" -> "const"
      [] q = "Restrict" -> "restrict"
      [] q = "Volatile" -> "volatile"
      [] q = "Atomic" -> "_Atomic"

RECURSIVE StarText(_)
StarText(n) == IF n = 0 THEN "" ELSE "*" \o StarText(n - 1)

\* the type, ending in the stars of a pointer or in a space
TypeText(t) ==
    Join([k \in 1..Len(t.qualifiers) |-> QualifierWord(t.qualifiers[k])]
             \o <<t.specifier>>, " ")
        \o " " \o StarText(t.pointer)

ParameterListText(f) ==
    Join([j \in 1..Len(f.parameters) |->
             TypeText(f.parameters[j][1]) \o f.parameters[j][2]], ", ")

(***************************************************************************)
(* C12: every definition declares original_<name> with the declaration's   *)
(* return type and parameter list and assigns it from dlsym(RTLD_NEXT,     *)
(* "<name>") in front of the forwarding call; the forwarding call is the   *)
(* one line that calls original_<name>, and it passes the declaration's    *)
(* parameter names in declaration order.                                   *)
(***************************************************************************)
C12_TrampolineLookedUpThenCalled ==
    ReturnedOk =>
        LET Blocks == DefinitionBlocks IN
        \A i \in 1..Len(functions) :
            LET B == Blocks[i]
                f == functions[i]
                call == "original_" \o f.name \o "("
                           \o Join(ParameterNamesOf(f), ", ") \o ");"
            IN  /\ Len(B) >= 4
                /\ B[3] = "    " \o TypeText(f.return_type) \o "(*original_" \o f.name
                             \o ")(" \o ParameterListText(f) \o ") = dlsym(RTLD_NEXT, \""
                             \o f.name \o "\");"
                /\ LinesWith(B, "dlsym(") = <<B[3]>>
                /\ LinesWith(B, "original_" \o f.name \o "(") = <<B[4]>>
                /\ Len(B[4]) >= Len(call)
                /\ Drop(B[4], Len(B[4]) - Len(call)) = call
                /\ IF PlainVoid(f) THEN B[4] = "    " \o call
                   ELSE Contains(B[4], "result = original_")

C12_TwoTrampolinesEmitted ==
    ReturnedOk /\ Len(functions) = 2
        /\ functions[1].name # functions[2].name
        /\ Len(functions[1].parameters) = 2
        /\ Len(functions[2].parameters) # 2
        /\ Len(LinesWith(DefinitionBlocks[1], "dlsym(RTLD_NEXT")) = 1

(***************************************************************************)
(* C13: the loop of transform_file terminates: an iteration either leaves  *)
(* the loop or goes on with a strictly shorter input, having consumed at   *)
(* least a specifier, a name, '(', ')' and ';', so the declarations pushed *)
(* never outnumber the bytes consumed.                                     *)
(***************************************************************************)
LoopStep ==
    pc = "loop" => (pc' # "loop" \/ Len(input') + 5 <= Len(input))

C13_LoopTerminates ==
    /\ [][LoopStep]_vars
    /\ [](Len(functions) <= Len(content) - Len(input))

C13_LoopRanTwiceAndLeft ==
    /\ pc = "header"
    /\ Len(functions) = 2
    /\ Len(input) < Len(content)
====
